---- MODULE Spec2Model ----
(***************************************************************************)
(* The CSV-to-database migration cells of notebooks/003-Data-In-Data-Out:  *)
(* the copy cell, the "persons" cell, the SQLite migration loop and the    *)
(* Postgres migration loop, over a data directory and two database sinks.  *)
(*                                                                         *)
(* Text is a sequence of one-character strings, so that split, endswith    *)
(* and lower are computed and not assumed.  Cell values are strings.       *)
(***************************************************************************)
EXTENDS Integers, Sequences, FiniteSets, TLC

VARIABLES
    path_dir,    \* the directory the cells work on (Path("../data/"))
    dirExists,   \* whether that directory exists
    fs,          \* its entries, in the order iterdir() yields them
    sink,        \* sink[s]: the tables of database s, by table name
    up,          \* up[s]: whether database s accepts writes
    df,          \* the notebook's shared DataFrame variable
    file_list,   \* the notebook's file_list variable
    f,           \* the loop variable: the Path being processed
    table_name,  \* the notebook's table_name variable
    i,           \* how many files of file_list the running loop has finished
    st,          \* st[k]: how far file_list[k] got in the running loop
    pc,          \* position in the running cell: idle, loop, load, done, aborted
    cell,        \* the cell that ran last: copy, persons, sqlite, pg or none
    out,         \* the lines the running cell printed
    err,         \* the exception that ended the last cell, or none
    snap         \* a copy of the directory and the sinks, kept to compare with

vars == <<path_dir, dirExists, fs, sink, up, df, file_list, f, table_name,
          i, st, pc, cell, out, err, snap>>

(***************************************************************************)
(* Bounds of the model.                                                    *)
(***************************************************************************)
MaxEntries == 2

(***************************************************************************)
(* Text.                                                                   *)
(***************************************************************************)
Upper == <<"A","B","C","D","E","F","G","H","I","J","K","L","M",
           "N","O","P","Q","R","S","T","U","V","W","X","Y","Z">>
LowerAlpha == <<"a","b","c","d","e","f","g","h","i","j","k","l","m",
                "n","o","p","q","r","s","t","u","v","w","x","y","z">>

LowerChar(c) ==
    IF \E k \in DOMAIN Upper : Upper[k] = c
    THEN LowerAlpha[CHOOSE k \in DOMAIN Upper : Upper[k] = c]
    ELSE c

\* str.lower()
Lower(s) == [k \in DOMAIN s |-> LowerChar(s[k])]

\* str.endswith(suffix)
EndsWith(s, suffix) ==
    /\ Len(suffix) <= Len(s)
    /\ SubSeq(s, Len(s) - Len(suffix) + 1, Len(s)) = suffix

\* str.split(sep) for a one-character sep: the pieces between the separators,
\* empty pieces included
RECURSIVE Split(_, _)
Split(s, sep) ==
    IF \A k \in DOMAIN s : s[k] # sep
    THEN <<s>>
    ELSE LET k == CHOOSE j \in DOMAIN s :
                      s[j] = sep /\ \A h \in 1..(j - 1) : s[h] # sep
         IN  <<SubSeq(s, 1, k - 1)>> \o Split(SubSeq(s, k + 1, Len(s)), sep)

Slash == "/"
Dot == "."

\* A Path is its parent directory and its final component; str(path) joins
\* them with a slash.
PathOf(parent, name) == [parent |-> parent, name |-> name]
Str(p) == p.parent \o <<Slash>> \o p.name

NoPath == PathOf(<<>>, <<>>)

DataDir == <<".", ".", "/", "d", "a", "t", "a">>
CsvSuffix == <<".", "c", "s", "v">>
PersonCsv == <<"P","e","r","s","o","n",".","c","s","v">>
Person1Csv == <<"P","e","r","s","o","n","1",".","c","s","v">>
\* the literal '../data/Person1.csv'
ExcludedStr == DataDir \o <<Slash>> \o Person1Csv
Persons == <<"p","e","r","s","o","n","s">>

\* A derivation that leaves a name already ending in s alone.
deriveTableName_Plural(p) ==
    LET base == Lower(Split(Split(Str(p), Slash)[Len(Split(Str(p), Slash))], Dot)[1])
    IN  IF Len(base) > 0 /\ base[Len(base)] = "s" THEN base ELSE base \o <<"s">>

\* A derivation that cuts at the first dot of the whole path string.
deriveTableName_WholePath(p) ==
    LET head == Split(Str(p), Dot)[1]
        segs == Split(head, Slash)
    IN  Lower(segs[Len(segs)]) \o <<"s">>

\* f"{str(f).split('/')[-1].split('.')[0].lower()}s"
deriveTableName(p) ==
    LET segs == Split(Str(p), Slash)
        base == segs[Len(segs)]
    IN  Lower(Split(base, Dot)[1]) \o <<"s">>

(***************************************************************************)
(* The data directory.  An entry has a name, a kind and, for a file, its   *)
(* content: a header line and the lines under it, tab-separated.           *)
(***************************************************************************)
Range(s) == {s[k] : k \in DOMAIN s}

Content(header, lines) == [header |-> header, lines |-> lines]
Entry(name, kind, content) == [name |-> name, kind |-> kind, content |-> content]

IdCol == "id"

\* id first, one row
Good1 == Content(<<"id", "v">>, << <<"1", "a">> >>)
\* id last, a repeated row
Good2 == Content(<<"v", "id">>, << <<"b", "1">>, <<"c", "2">>, <<"b", "1">> >>)
\* no id column
NoId == Content(<<"v">>, << <<"a">> >>)
\* an empty file
Empty == Content(<<>>, <<>>)
\* a value read as an unsigned 64-bit integer, which to_sql refuses
Big == Content(<<"id", "v">>, << <<"1", "u64">> >>)

ContactCsv == <<"c","o","n","t","a","c","t","d","e","t","a","i","l","s",".","c","s","v">>
PersonUpperCsv == <<"P","E","R","S","O","N",".","c","s","v">>
MyDataCsv == <<"m","y",".","d","a","t","a",".","c","s","v">>
OldCsv == <<"o","l","d",".","c","s","v">>
NotesTxt == <<"n","o","t","e","s",".","t","x","t">>
\* the file of "sqlite:///../data/sqlite.db", which lives in the data directory
SqliteDb == <<"s","q","l","i","t","e",".","d","b">>

Candidates ==
    { Entry(PersonCsv, "file", Good1), Entry(PersonCsv, "file", NoId),
      Entry(ContactCsv, "file", Good2), Entry(ContactCsv, "file", Big),
      Entry(PersonUpperCsv, "file", Good2),
      Entry(Person1Csv, "file", Good1),
      Entry(MyDataCsv, "file", Good1),
      Entry(OldCsv, "dir", Empty),
      Entry(NotesTxt, "file", Good1) }

DistinctNames(listing) ==
    \A a, b \in DOMAIN listing : listing[a].name = listing[b].name => a = b

Listings ==
    {l \in UNION {[1..n -> Candidates] : n \in 0..MaxEntries} : DistinctNames(l)}

\* a new entry shows up wherever the directory lists it
Created(listing, e) ==
    {SubSeq(listing, 1, k) \o <<e>> \o SubSeq(listing, k + 1, Len(listing)) :
        k \in 0..Len(listing)}

HasEntry(listing, name) == \E k \in DOMAIN listing : listing[k].name = name
EntryOf(listing, name) ==
    listing[CHOOSE k \in DOMAIN listing : listing[k].name = name]

(***************************************************************************)
(* pandas.                                                                 *)
(***************************************************************************)
Frame(index, columns, data) ==
    [defined |-> TRUE, index |-> index, columns |-> columns, data |-> data]
NoFrame == [defined |-> FALSE, index |-> <<>>, columns |-> <<>>, data |-> <<>>]

Without(s, k) == SubSeq(s, 1, k - 1) \o SubSeq(s, k + 1, Len(s))
PosOf(s, x) == CHOOSE k \in DOMAIN s : s[k] = x

Failed(e) == [ok |-> FALSE, error |-> e, frame |-> NoFrame]

\* pd.read_csv(p, sep="\t", index_col='id', low_memory=False): the id column
\* becomes the index and leaves the columns
read_csv(listing, p) ==
    IF ~HasEntry(listing, p.name) THEN Failed("FileNotFoundError")
    ELSE LET e == EntryOf(listing, p.name)
             c == e.content
         IN  IF e.kind = "dir" THEN Failed("IsADirectoryError")
             ELSE IF c.header = <<>> THEN Failed("EmptyDataError")
             ELSE IF IdCol \notin Range(c.header) THEN Failed("ValueError")
             ELSE LET k == PosOf(c.header, IdCol)
                  IN  [ok |-> TRUE, error |-> "none",
                       frame |-> Frame([r \in DOMAIN c.lines |-> c.lines[r][k]],
                                       Without(c.header, k),
                                       [r \in DOMAIN c.lines |-> Without(c.lines[r], k)])]

Table(columns, rows) == [columns |-> columns, rows |-> rows]

\* the table to_sql writes for a frame: the index as the first column, named
\* by index_label, then the frame's columns
TableOf(frame, index_label) ==
    Table(<<index_label>> \o frame.columns,
          [r \in DOMAIN frame.data |-> <<frame.index[r]>> \o frame.data[r]])

Put(tables, name, t) ==
    [n \in DOMAIN tables \cup {name} |-> IF n = name THEN t ELSE tables[n]]

Unsupported(frame) ==
    \E r \in DOMAIN frame.data : "u64" \in Range(frame.data[r])

Refused(tables, e) == [ok |-> FALSE, error |-> e, tables |-> tables]
Written(tables) == [ok |-> TRUE, error |-> "none", tables |-> tables]

\* to_sql that drops the index instead of writing it as a column
to_sql_NoIndex(tables, frame, name, reachable, if_exists, index_label) ==
    IF ~reachable THEN Refused(tables, "OperationalError")
    ELSE IF Unsupported(frame) THEN Refused(tables, "ValueError")
    ELSE Written(Put(tables, name, Table(frame.columns, frame.data)))

\* to_sql that appends to an existing table whatever if_exists says
to_sql_Append(tables, frame, name, reachable, if_exists, index_label) ==
    LET t == TableOf(frame, index_label)
    IN  IF ~reachable THEN Refused(tables, "OperationalError")
        ELSE IF Unsupported(frame) THEN Refused(tables, "ValueError")
        ELSE IF name \in DOMAIN tables
             THEN Written(Put(tables, name,
                              Table(tables[name].columns, tables[name].rows \o t.rows)))
             ELSE Written(Put(tables, name, t))

\* to_sql that leaves a table alone when one of that name is already there
to_sql_KeepExisting(tables, frame, name, reachable, if_exists, index_label) ==
    IF ~reachable THEN Refused(tables, "OperationalError")
    ELSE IF Unsupported(frame) THEN Refused(tables, "ValueError")
    ELSE IF name \in DOMAIN tables THEN Written(tables)
    ELSE Written(Put(tables, name, TableOf(frame, index_label)))

\* to_sql that empties the database before it writes the table
to_sql_Fresh(tables, frame, name, reachable, if_exists, index_label) ==
    IF ~reachable THEN Refused(tables, "OperationalError")
    ELSE IF Unsupported(frame) THEN Refused(tables, "ValueError")
    ELSE Written([n \in {name} |-> TableOf(frame, index_label)])

\* frame.to_sql(name=name, con=engine, if_exists=if_exists, index_label=index_label)
to_sql(tables, frame, name, reachable, if_exists, index_label) ==
    LET t == TableOf(frame, index_label)
    IN  IF ~reachable THEN Refused(tables, "OperationalError")
        ELSE IF Unsupported(frame) THEN Refused(tables, "ValueError")
        ELSE IF name \notin DOMAIN tables THEN Written(Put(tables, name, t))
        ELSE IF if_exists = "replace" THEN Written(Put(tables, name, t))
        ELSE IF if_exists = "append"
             THEN Written(Put(tables, name,
                              Table(tables[name].columns, tables[name].rows \o t.rows)))
        ELSE Refused(tables, "ValueError")

\* pd.read_sql("SELECT * FROM name", con=engine): every column of the table
\* is a column of the frame, under a fresh 0..n-1 index
Digits == <<"0", "1", "2", "3", "4", "5", "6", "7", "8", "9">>
read_sql(tables, name) ==
    LET t == tables[name]
    IN  Frame([r \in DOMAIN t.rows |-> Digits[r]], t.columns, t.rows)

(***************************************************************************)
(* The state before the first cell runs.                                   *)
(***************************************************************************)
Sinks == {"sqlite", "pg"}
Rest == {"idle", "done", "aborted"}

Person1s == <<"p","e","r","s","o","n","1","s">>
OldTable == Table(<<"id", "v">>, << <<"9", "z">> >>)
NoTables == [n \in {} |-> OldTable]
InitialTables ==
    { NoTables, Put(NoTables, Persons, OldTable), Put(NoTables, Person1s, OldTable) }

\* no copy has been taken
NoSnap == [taken |-> FALSE, fs |-> <<>>, sink |-> [s \in Sinks |-> NoTables]]

\* create_engine(connection_string) opens the database on first use: the
\* SQLite file is created in the data directory if it is not there.  It is
\* listed last: no comprehension selects a name ending in .db, so its place
\* among the entries changes nothing.
WithDb(listing) ==
    IF HasEntry(listing, SqliteDb) THEN {listing}
    ELSE {Append(listing, Entry(SqliteDb, "file", Empty))}

\* A SQLite database that holds tables is a file of the data directory; with
\* the directory missing there is none and it cannot be opened, and with
\* the directory there it can.  The Postgres server may be out of reach.
Init ==
    /\ path_dir = DataDir
    /\ dirExists \in BOOLEAN
    /\ \E t \in InitialTables :
          IF dirExists
          THEN /\ sink = [s \in Sinks |-> t]
               /\ up \in {u \in [Sinks -> BOOLEAN] : u.sqlite}
               /\ \E l \in Listings :
                     fs \in (IF t = NoTables THEN {l} ELSE WithDb(l))
          ELSE /\ sink = [s \in Sinks |-> IF s = "sqlite" THEN NoTables ELSE t]
               /\ up \in {u \in [Sinks -> BOOLEAN] : ~u.sqlite}
               /\ fs = <<>>
    /\ df = NoFrame
    /\ file_list = <<>>
    /\ f = NoPath
    /\ table_name = <<>>
    /\ i = 0
    /\ st = <<>>
    /\ pc = "idle"
    /\ cell = "none"
    /\ out = <<>>
    /\ err = "none"
    /\ snap = NoSnap

(***************************************************************************)
(* Discovery: the file_list comprehensions.                                *)
(***************************************************************************)
\* iterdir() that yields nothing for a missing directory
iterdir_Lenient(exists, listing) == [ok |-> TRUE, entries |-> listing]

\* path_dir.iterdir(): the entries of the directory, or FileNotFoundError
iterdir(exists, listing) ==
    IF exists THEN [ok |-> TRUE, entries |-> listing]
    ELSE [ok |-> FALSE, entries |-> <<>>]

\* a filter that keeps every path but the excluded one, whatever its suffix
Selected_NotExcluded(x) == Str(x) # ExcludedStr

\* if str(x).endswith('.csv') and str(x) != '../data/Person1.csv'
Selected(x) == EndsWith(Str(x), CsvSuffix) /\ Str(x) # ExcludedStr

\* [x for x in path_dir.iterdir() if ...]
FileList(dir, entries) ==
    SelectSeq([k \in DOMAIN entries |-> PathOf(dir, entries[k].name)], Selected)

Discover(c) ==
    /\ pc \in Rest
    /\ cell' = c
    /\ out' = <<>>
    /\ LET d == iterdir(dirExists, fs)
       IN  IF d.ok
           THEN /\ file_list' = FileList(path_dir, d.entries)
                /\ st' = [k \in DOMAIN file_list' |-> "Discovered"]
                /\ i' = 0
                /\ pc' = IF file_list' = <<>> THEN "done" ELSE "loop"
                /\ err' = "none"
           ELSE /\ pc' = "aborted"
                /\ err' = "FileNotFoundError"
                /\ UNCHANGED <<file_list, st, i>>
    /\ UNCHANGED <<snap, path_dir, dirExists, fs, sink, up, df, f, table_name>>

SqliteDiscover == Discover("sqlite")
PgDiscover == Discover("pg")

(***************************************************************************)
(* The loop bodies.  A file is finished when it is loaded or, in the       *)
(* Postgres loop, when its exception has been printed.                     *)
(***************************************************************************)
Finish ==
    /\ i' = i + 1
    /\ pc' = IF i + 1 = Len(file_list) THEN "done" ELSE "loop"

\* an exception nothing catches ends the cell
Uncaught(e) ==
    /\ pc' = "aborted"
    /\ err' = e
    /\ UNCHANGED <<i, out>>

\* an except clause that prints nothing
PrintError_Silent(lines, e) == lines

\* print(f"Error: {e}")
PrintError(lines, e) == Append(lines, e)

\* except Exception as e: print(f"Error: {e}"), then the next file
Caught(e) ==
    /\ out' = PrintError(out, e)
    /\ err' = "none"
    /\ Finish

Mark(k, status) == st' = [st EXCEPT ![k] = status]

\* a SQLite loop that walks file_list from its end
SqliteParse_Reverse ==
    /\ pc = "loop" /\ cell = "sqlite"
    /\ f' = file_list[Len(file_list) - i]
    /\ LET r == read_csv(fs, f')
       IN  IF r.ok
           THEN /\ df' = r.frame
                /\ Mark(Len(file_list) - i, "Parsed")
                /\ pc' = "load"
                /\ UNCHANGED <<i, out, err>>
           ELSE /\ Mark(Len(file_list) - i, "Failed")
                /\ Uncaught(r.error)
                /\ UNCHANGED df
    /\ UNCHANGED <<snap, path_dir, dirExists, fs, sink, up, file_list, table_name, cell>>

SqliteParse ==
    /\ pc = "loop" /\ cell = "sqlite"
    /\ f' = file_list[i + 1]
    /\ LET r == read_csv(fs, f')
       IN  IF r.ok
           THEN /\ df' = r.frame
                /\ Mark(i + 1, "Parsed")
                /\ pc' = "load"
                /\ UNCHANGED <<i, out, err>>
           ELSE /\ Mark(i + 1, "Failed")
                /\ Uncaught(r.error)
                /\ UNCHANGED df
    /\ UNCHANGED <<snap, path_dir, dirExists, fs, sink, up, file_list, table_name, cell>>

SqliteLoad ==
    /\ pc = "load" /\ cell = "sqlite"
    /\ table_name' = deriveTableName(f)
    /\ LET w == to_sql(sink.sqlite, df, table_name', up.sqlite, "replace", IdCol)
       IN  IF w.ok
           THEN /\ sink' = [sink EXCEPT !.sqlite = w.tables]
                /\ Mark(i + 1, "Loaded")
                /\ Finish
                /\ UNCHANGED <<out, err>>
           ELSE /\ Mark(i + 1, "Failed")
                /\ Uncaught(w.error)
                /\ UNCHANGED sink
    /\ fs' \in (IF up.sqlite THEN WithDb(fs) ELSE {fs})
    /\ UNCHANGED <<snap, path_dir, dirExists, up, df, file_list, f, cell>>

\* a Postgres loop step that removes from the directory the file it could
\* not parse
PgParse_Quarantine ==
    /\ pc = "loop" /\ cell = "pg"
    /\ f' = file_list[i + 1]
    /\ LET r == read_csv(fs, f')
       IN  IF r.ok
           THEN /\ df' = r.frame
                /\ Mark(i + 1, "Parsed")
                /\ pc' = "load"
                /\ UNCHANGED <<i, out, err, fs>>
           ELSE /\ Mark(i + 1, "Failed")
                /\ Caught(r.error)
                /\ fs' = SelectSeq(fs, LAMBDA e : e.name # f'.name)
                /\ UNCHANGED df
    /\ UNCHANGED <<snap, path_dir, dirExists, sink, up, file_list, table_name, cell>>

\* a Postgres loop whose try covers read_csv alone: after the error is
\* printed the body goes on to to_sql with whatever df holds
PgParse_FallThrough ==
    /\ pc = "loop" /\ cell = "pg"
    /\ f' = file_list[i + 1]
    /\ LET r == read_csv(fs, f')
       IN  IF r.ok
           THEN /\ df' = r.frame
                /\ Mark(i + 1, "Parsed")
                /\ UNCHANGED out
           ELSE /\ Mark(i + 1, "Failed")
                /\ out' = PrintError(out, r.error)
                /\ UNCHANGED df
    /\ pc' = "load"
    /\ UNCHANGED <<snap, path_dir, dirExists, fs, sink, up, file_list, table_name, cell, i, err>>

PgParse ==
    /\ pc = "loop" /\ cell = "pg"
    /\ f' = file_list[i + 1]
    /\ LET r == read_csv(fs, f')
       IN  IF r.ok
           THEN /\ df' = r.frame
                /\ Mark(i + 1, "Parsed")
                /\ pc' = "load"
                /\ UNCHANGED <<i, out, err>>
           ELSE /\ Mark(i + 1, "Failed")
                /\ Caught(r.error)
                /\ UNCHANGED df
    /\ UNCHANGED <<snap, path_dir, dirExists, fs, sink, up, file_list, table_name, cell>>

PgLoad ==
    /\ pc = "load" /\ cell = "pg"
    /\ table_name' = deriveTableName(f)
    /\ LET w == to_sql(sink.pg, df, table_name', up.pg, "replace", IdCol)
       IN  IF w.ok
           THEN /\ sink' = [sink EXCEPT !.pg = w.tables]
                /\ Mark(i + 1, "Loaded")
                /\ Finish
                /\ UNCHANGED <<out, err>>
           ELSE /\ Mark(i + 1, "Failed")
                /\ Caught(w.error)
                /\ UNCHANGED sink
    /\ UNCHANGED <<snap, path_dir, dirExists, fs, up, df, file_list, f, cell>>

(***************************************************************************)
(* The cells before the loops.                                             *)
(***************************************************************************)
\* shutil.copy(p1, p2): p2 gets the content of p1, wherever the directory
\* lists a new entry
Copied(listing, from, to) ==
    LET e == Entry(to, "file", EntryOf(listing, from).content)
    IN  IF HasEntry(listing, to)
        THEN {[listing EXCEPT ![PosOf([k \in DOMAIN listing |-> listing[k].name], to)] = e]}
        ELSE Created(listing, e)

\* df = pd.read_csv(person_csv, ...); copy_file(person_csv, person_csv_1)
CopyCell ==
    /\ pc \in Rest
    /\ cell' = "copy"
    /\ out' = <<>>
    /\ LET r == read_csv(fs, PathOf(DataDir, PersonCsv))
       IN  IF r.ok
           THEN /\ df' = r.frame
                /\ fs' \in Copied(fs, PersonCsv, Person1Csv)
                /\ pc' = "done"
                /\ err' = "none"
           ELSE /\ pc' = "aborted"
                /\ err' = r.error
                /\ UNCHANGED <<df, fs>>
    /\ UNCHANGED <<snap, path_dir, dirExists, sink, up, file_list, f, table_name, i, st>>

\* df.to_sql(name="persons", con=engine, if_exists='replace', index_label='id')
PersonsCell ==
    /\ pc \in Rest
    /\ cell' = "persons"
    /\ out' = <<>>
    /\ IF ~df.defined
       THEN /\ pc' = "aborted"
            /\ err' = "NameError"
            /\ UNCHANGED <<sink, fs>>
       ELSE /\ LET w == to_sql(sink.sqlite, df, Persons, up.sqlite, "replace", IdCol)
               IN  IF w.ok
                   THEN /\ sink' = [sink EXCEPT !.sqlite = w.tables]
                        /\ pc' = "done"
                        /\ err' = "none"
                   ELSE /\ pc' = "aborted"
                        /\ err' = w.error
                        /\ UNCHANGED sink
            /\ fs' \in (IF up.sqlite THEN WithDb(fs) ELSE {fs})
    /\ UNCHANGED <<snap, path_dir, dirExists, up, df, file_list, f, table_name, i, st>>

Next ==
    \/ CopyCell
    \/ PersonsCell
    \/ SqliteDiscover
    \/ SqliteParse
    \/ SqliteLoad
    \/ PgDiscover
    \/ PgParse
    \/ PgLoad

Spec == Init /\ [][Next]_vars

(***************************************************************************)
(* The table-name derivation on its own: a path is picked, the name is    *)
(* derived, another path is picked.                                        *)
(***************************************************************************)
ContactDetailss ==
    <<"c","o","n","t","a","c","t","d","e","t","a","i","l","s","s">>

DeriveDirs == { DataDir, <<"a", ".", "b">>, <<"x">> }
DeriveNames ==
    { PersonCsv, ContactCsv, PersonUpperCsv, Person1Csv, MyDataCsv, OldCsv, NotesTxt,
      <<"R","E","A","D","M","E">>, <<"t",".","c","s","v">>, <<"s",".","c","s","v">>,
      <<"A",".","B",".","C">> }

DeriveInit ==
    /\ path_dir \in DeriveDirs
    /\ \E n \in DeriveNames : f = PathOf(path_dir, n)
    /\ table_name = <<>>
    /\ pc = "idle"
    /\ cell = "derive"
    /\ dirExists = TRUE
    /\ fs = <<>>
    /\ sink = [s \in Sinks |-> NoTables]
    /\ up = [s \in Sinks |-> TRUE]
    /\ df = NoFrame
    /\ file_list = <<>>
    /\ i = 0
    /\ st = <<>>
    /\ out = <<>>
    /\ err = "none"
    /\ snap = NoSnap

DeriveCall ==
    /\ pc = "idle"
    /\ table_name' = deriveTableName(f)
    /\ pc' = "done"
    /\ UNCHANGED <<snap, path_dir, dirExists, fs, sink, up, df, file_list, f, i, st,
                   cell, out, err>>

DerivePick ==
    /\ pc = "done"
    /\ path_dir' \in DeriveDirs
    /\ \E n \in DeriveNames : f' = PathOf(path_dir', n)
    /\ pc' = "idle"
    /\ UNCHANGED <<snap, dirExists, fs, sink, up, df, file_list, table_name, i, st,
                   cell, out, err>>

DeriveNext == DeriveCall \/ DerivePick

DeriveSpec == DeriveInit /\ [][DeriveNext]_vars

Derived == pc = "done" /\ cell = "derive"

(***************************************************************************)
(* Claims about deriveTableName, under DeriveSpec.                         *)
(***************************************************************************)
\* the base name with its final extension removed (a leading dot starts no
\* extension)
Stem(name) ==
    IF \E k \in 2..Len(name) : name[k] = Dot
    THEN LET k == CHOOSE j \in 2..Len(name) :
                      name[j] = Dot /\ \A h \in (j + 1)..Len(name) : name[h] # Dot
         IN  SubSeq(name, 1, k - 1)
    ELSE name

\* how many characters come before the first dot of the name
BeforeFirstDot(name) ==
    IF \E k \in DOMAIN name : name[k] = Dot
    THEN (CHOOSE k \in DOMAIN name : name[k] = Dot /\ \A h \in 1..(k - 1) : name[h] # Dot) - 1
    ELSE Len(name)

\* C4: for every path, the derived name is the base name without its final
\* extension, lowercased, followed by one s, also when the base name holds
\* more than one dot.
C4_StemLowerS ==
    Derived => table_name = Lower(Stem(f.name)) \o <<"s">>

\* C5: the derivation appends exactly one s after the part of the name it
\* keeps, whatever that part ends in: Person.csv gives persons and
\* contactdetails.csv gives contactdetailss.
C5_AppendsOneS ==
    Derived =>
        /\ Len(table_name) = BeforeFirstDot(f.name) + 1
        /\ table_name[Len(table_name)] = "s"
        /\ f.name = PersonCsv => table_name = Persons
        /\ f.name = ContactCsv => table_name = ContactDetailss

C5_Witness ==
    Derived /\ f.name = ContactCsv /\ table_name = ContactDetailss

\* C9: the derived name depends on the file name only: the same file name
\* under any other directory derives the name just derived, whatever was
\* derived before.
C9_NameOnly ==
    Derived =>
        \A d \in DeriveDirs : deriveTableName(PathOf(d, f.name)) = table_name

C9_Witness ==
    Derived /\ f.parent = <<"a", ".", "b">> /\ f.name = MyDataCsv
            /\ table_name = <<"m", "y", "s">>

(***************************************************************************)
(* Claims about the migration loops, under Spec.                           *)
(***************************************************************************)
InBatch == cell \in Sinks
BatchEnded == InBatch /\ pc \in {"done", "aborted"}

\* what stops the file at path p from reaching database s, read off the
\* directory and the database: its parse error, else its load error, else none
FailureOf(p, s) ==
    LET r == read_csv(fs, p)
    IN  IF ~r.ok THEN r.error
        ELSE IF ~up[s] THEN "OperationalError"
        ELSE IF Unsupported(r.frame) THEN "ValueError"
        ELSE "none"

Failures(s) ==
    SelectSeq([k \in DOMAIN file_list |-> FailureOf(file_list[k], s)],
              LAMBDA e : e # "none")

\* C1: when a migration loop has ended, every discovered file has been
\* processed, and every file that parses and loads is a table of the sink,
\* wherever a failing file sits in the order.
C1_BatchNeverStopsEarly ==
    BatchEnded =>
        \A k \in DOMAIN file_list :
            /\ st[k] \in {"Loaded", "Failed"}
            /\ FailureOf(file_list[k], cell) = "none" =>
                   /\ st[k] = "Loaded"
                   /\ deriveTableName(file_list[k]) \in DOMAIN sink[cell]

\* C2: the finished Postgres loop has recorded one outcome per discovered
\* file.
C2_OneOutcomePerFile ==
    (cell = "pg" /\ pc = "done") => Len(out) = Len(file_list)

\* C2 as amended: the finished Postgres loop has printed one line per failed
\* file, in discovery order, each the description of that file's error, and
\* nothing for a file that loaded; every file that did not fail is Loaded.
C2_OneLinePerFailure ==
    (cell = "pg" /\ pc = "done") =>
        /\ out = Failures("pg")
        /\ Cardinality({k \in DOMAIN st : st[k] = "Failed"}) = Len(out)
        /\ Cardinality({k \in DOMAIN st : st[k] = "Loaded"}) = Len(file_list) - Len(out)

C2_Witness ==
    /\ cell = "pg" /\ pc = "done"
    /\ Len(file_list) = 2
    /\ st = <<"Loaded", "Failed">>
    /\ out = <<"ValueError">>
    /\ read_csv(fs, file_list[2]).ok = FALSE

\* C3: after discovery, file_list holds exactly the entries of the directory
\* that are files, whose name ends with .csv and whose path is not excluded.
C3_DiscoverExact ==
    InBatch =>
        Range(file_list) =
            { PathOf(path_dir, fs[k].name) : k \in
                { j \in DOMAIN fs : /\ fs[j].kind = "file"
                                    /\ EndsWith(fs[j].name, CsvSuffix)
                                    /\ Str(PathOf(path_dir, fs[j].name)) # ExcludedStr } }

\* the rows of a frame and of a file as records by column name, the index
\* under the name id, each with the number of times it occurs
Count(rows) == [x \in Range(rows) |-> Cardinality({k \in DOMAIN rows : rows[k] = x})]

FileRows(c) ==
    Count([r \in DOMAIN c.lines |->
              [col \in Range(c.header) |-> c.lines[r][PosOf(c.header, col)]]])

FrameRows(frame) ==
    Count([r \in DOMAIN frame.data |->
              [col \in Range(frame.columns) \cup {IdCol} |->
                  IF col = IdCol /\ col \notin Range(frame.columns)
                  THEN frame.index[r]
                  ELSE frame.data[r][PosOf(frame.columns, col)]]])

ReadBackRows(frame) ==
    Count([r \in DOMAIN frame.data |->
              [col \in Range(frame.columns) |-> frame.data[r][PosOf(frame.columns, col)]]])

\* the loop has just loaded f into its sink under table_name
JustLoaded == InBatch /\ pc \in {"loop", "done"} /\ i >= 1 /\ st[i] = "Loaded"

C7_ReplaceExact ==
    /\ JustLoaded =>
          LET t == sink[cell][table_name]
          IN  /\ t.columns = <<IdCol>> \o df.columns
              /\ DOMAIN t.rows = DOMAIN df.index
              /\ \A r \in DOMAIN t.rows : t.rows[r] = <<df.index[r]>> \o df.data[r]
    /\ (cell = "persons" /\ pc = "done") =>
          LET t == sink.sqlite[Persons]
          IN  /\ t.columns = <<IdCol>> \o df.columns
              /\ DOMAIN t.rows = DOMAIN df.index
              /\ \A r \in DOMAIN t.rows : t.rows[r] = <<df.index[r]>> \o df.data[r]

\* persons held the old table in both sinks; the SQLite loop has replaced it
C7_Witness ==
    /\ JustLoaded /\ cell = "sqlite"
    /\ table_name = Persons
    /\ Persons \in DOMAIN sink.pg /\ sink.pg[Persons] = OldTable
    /\ sink.sqlite[Persons].rows = << <<"1", "a">> >>

\* C8: with the directory missing, a migration cell ends at once with the
\* directory error, uncaught: no file is parsed or loaded, nothing is
\* printed and no sink changes.
C8_MissingDirectoryAborts ==
    /\ [](~dirExists => /\ pc \notin {"loop", "load"}
                        /\ st = <<>>
                        /\ out = <<>>)
    /\ [][(~dirExists /\ (SqliteDiscover \/ PgDiscover)) =>
             /\ pc' = "aborted"
             /\ err' = "FileNotFoundError"
             /\ sink' = sink
             /\ out' = <<>>
             /\ st' = <<>>]_vars

C8_Witness ==
    /\ ~dirExists /\ InBatch
    /\ pc = "aborted" /\ err = "FileNotFoundError"
    /\ \E s \in Sinks : Persons \in DOMAIN sink[s]

\* C10: no step of discovery or of a migration loop creates, renames,
\* modifies or deletes a source file: every entry of the directory other
\* than the SQLite database's own file keeps its name, kind, content and
\* place, whether the file loads or fails.
Sources(listing) == SelectSeq(listing, LAMBDA e : e.name # SqliteDb)

C10_FileSystemUnchanged ==
    [][(SqliteDiscover \/ SqliteParse \/ SqliteLoad \/ PgDiscover \/ PgParse \/ PgLoad)
          => (Sources(fs') = Sources(fs) /\ dirExists' = dirExists)]_vars

C10_Witness ==
    /\ cell = "sqlite" /\ pc = "aborted"
    /\ st = <<"Loaded", "Failed">>
    /\ HasEntry(fs, SqliteDb)
    /\ HasEntry(fs, Person1Csv)
    /\ Len(Sources(fs)) = 3

(***************************************************************************)
(* A directory with nothing to load.                                       *)
(***************************************************************************)
\* the directory lists something, and nothing it lists ends in .csv
NoCsv ==
    /\ dirExists
    /\ fs # <<>>
    /\ \A k \in DOMAIN fs : ~EndsWith(Str(PathOf(path_dir, fs[k].name)), CsvSuffix)

\* C11: the comprehension over a directory that lists entries, none of them
\* ending in .csv, gives an empty file_list and raises nothing; the loop over
\* it has no iteration: it ends at once, prints nothing, marks no file and
\* leaves both sinks as they were.
C11_NothingToLoad ==
    [][((SqliteDiscover \/ PgDiscover) /\ NoCsv) =>
          /\ file_list' = <<>>
          /\ err' = "none"
          /\ pc' = "done"
          /\ out' = <<>>
          /\ st' = <<>>
          /\ sink' = sink]_vars

C11_Witness ==
    /\ InBatch /\ NoCsv /\ HasEntry(fs, NotesTxt)
    /\ pc = "done" /\ file_list = <<>> /\ err = "none"

(***************************************************************************)
(* The course of one file through a loop.                                  *)
(***************************************************************************)
LoopStep == SqliteParse \/ SqliteLoad \/ PgParse \/ PgLoad

Paths ==
    { <<"Discovered", "Parsed">>, <<"Parsed", "Loaded">>,
      <<"Parsed", "Failed">>, <<"Discovered", "Failed">> }

\* C12: a loop step moves at most the current file, along Discovered ->
\* Parsed, Parsed -> Loaded, Parsed -> Failed or Discovered -> Failed, so
\* Loaded and Failed are never left.  The step in which read_csv fails
\* writes nothing; a step that changes a sink is the to_sql of a file whose
\* own read_csv succeeded, and puts that file's frame, not an earlier
\* file's, under that file's table name.
C12_ParseFailureNeverLoads ==
    [][LoopStep =>
          /\ DOMAIN st' = DOMAIN st
          /\ \A k \in DOMAIN st :
                \/ st'[k] = st[k]
                \/ k = i + 1 /\ <<st[k], st'[k]>> \in Paths
          /\ (st[i + 1] = "Discovered" /\ st'[i + 1] = "Failed") => sink' = sink
          /\ sink' # sink =>
                LET r == read_csv(fs, f)
                IN  /\ st[i + 1] = "Parsed" /\ st'[i + 1] = "Loaded"
                    /\ f = file_list[i + 1]
                    /\ r.ok
                    /\ sink' = [sink EXCEPT ![cell] =
                                   Put(sink[cell], deriveTableName(f),
                                       TableOf(r.frame, IdCol))]]_vars

\* the Postgres loop has loaded a first file and failed to parse the second:
\* df still holds the first file's frame, and the second file has no table
C12_Witness ==
    /\ cell = "pg" /\ pc = "done"
    /\ st = <<"Loaded", "Failed">>
    /\ ~read_csv(fs, file_list[2]).ok
    /\ df = read_csv(fs, file_list[1]).frame
    /\ deriveTableName(file_list[2]) \notin DOMAIN sink.pg

Final == {"Loaded", "Failed"}

\* C13: during and after a loop the files before the current one are all
\* Loaded or Failed, the files after it are all still Discovered, and the one
\* file that may be in progress is the current one, file_list[i + 1]: it is
\* Parsed exactly while its to_sql is pending, and then df holds its frame.
C13_OneFileAtATime ==
    (InBatch /\ dirExists) =>
        /\ DOMAIN st = DOMAIN file_list
        /\ i \in 0..Len(file_list)
        /\ \A k \in DOMAIN st :
              /\ k <= i => st[k] \in Final
              /\ k > i + 1 => st[k] = "Discovered"
              /\ st[k] = "Parsed" => (k = i + 1 /\ pc = "load")
        /\ pc = "load" =>
              /\ st[i + 1] = "Parsed"
              /\ f = file_list[i + 1]
              /\ read_csv(fs, f).ok /\ df = read_csv(fs, f).frame
        /\ pc = "loop" => (i < Len(file_list) /\ st[i + 1] = "Discovered")
        /\ pc = "aborted" => (i < Len(file_list) /\ st[i + 1] = "Failed")
        /\ pc = "done" => i = Len(file_list)

\* the second of two files is being loaded after the first was finished
C13_Witness ==
    /\ InBatch /\ pc = "load" /\ i = 1
    /\ Len(file_list) = 2
    /\ st = <<"Loaded", "Parsed">>

(***************************************************************************)
(* The end of a loop.                                                      *)
(***************************************************************************)
\* C14: when a migration cell has ended, every file of file_list is Loaded
\* or Failed; none is left Discovered.
C14_NoFileLeftBehind ==
    BatchEnded => \A k \in DOMAIN st : st[k] \in Final

(***************************************************************************)
(* Files that share a table name.                                          *)
(***************************************************************************)
\* the files the loop has loaded under the table name n
LoadedAs(n) ==
    {k \in DOMAIN file_list : st[k] = "Loaded" /\ deriveTableName(file_list[k]) = n}

Last(S) == CHOOSE k \in S : \A j \in S : j <= k

\* C17: a table name that one or more loaded files of file_list derive names
\* a table of the sink that is exactly the table of the last of them in
\* file_list order; with Person.csv and PERSON.csv both loaded, persons
\* holds the rows of the later one and none of the earlier one's.
C17_LastWriterWins ==
    (InBatch /\ dirExists) =>
        \A n \in {deriveTableName(file_list[k]) : k \in DOMAIN file_list} :
            LoadedAs(n) # {} =>
                /\ n \in DOMAIN sink[cell]
                /\ sink[cell][n] =
                      TableOf(read_csv(fs, file_list[Last(LoadedAs(n))]).frame, IdCol)

\* two files with the same table name and different rows have both loaded
C17_Witness ==
    /\ BatchEnded /\ pc = "done"
    /\ st = <<"Loaded", "Loaded">>
    /\ file_list[1] # file_list[2]
    /\ deriveTableName(file_list[1]) = deriveTableName(file_list[2])
    /\ sink[cell][deriveTableName(file_list[2])] =
          TableOf(read_csv(fs, file_list[2]).frame, IdCol)
    /\ TableOf(read_csv(fs, file_list[1]).frame, IdCol) #
          TableOf(read_csv(fs, file_list[2]).frame, IdCol)

(***************************************************************************)
(* What a loop leaves alone.                                               *)
(***************************************************************************)
\* the table names of the files in list
DerivedNames(list) == {deriveTableName(list[k]) : k \in DOMAIN list}

\* C19: a step of a migration cell keeps every table that is in the other
\* sink, and every table of its own sink whose name no file of file_list
\* derives, and it creates no table under such a name.  person1s, the name
\* of the excluded ../data/Person1.csv, is such a table.
C19_OtherTablesUntouched ==
    [][(SqliteDiscover \/ PgDiscover \/ LoopStep) =>
          \A s \in Sinks :
              /\ \A n \in DOMAIN sink[s] :
                    (s # cell' \/ n \notin DerivedNames(file_list')) =>
                        (n \in DOMAIN sink'[s] /\ sink'[s][n] = sink[s][n])
              /\ \A n \in DOMAIN sink'[s] \ DOMAIN sink[s] :
                    s = cell' /\ n \in DerivedNames(file_list')]_vars

\* a loop has loaded a file next to Person1.csv, and person1s is the table
\* it was before
C19_Witness ==
    /\ BatchEnded /\ pc = "done"
    /\ HasEntry(fs, Person1Csv)
    /\ \E k \in DOMAIN st : st[k] = "Loaded"
    /\ Person1s \in DOMAIN sink[cell]
    /\ sink[cell][Person1s] = OldTable
    /\ Person1s \notin DerivedNames(file_list)

(***************************************************************************)
(* The renaming cells: Solution 1 and Solution 2, each a rename pass and   *)
(* a revert pass over the .txt files of the directory.                     *)
(***************************************************************************)
Underscore == "_"
TxtSuffix == <<".", "t", "x", "t">>

\* f"{a}_{b}_{c}"
Join3(a, b, c) == a \o <<Underscore>> \o b \o <<Underscore>> \o c

NoName(e) == [ok |-> FALSE, error |-> e, name |-> <<>>]
Name(n) == [ok |-> TRUE, error |-> "none", name |-> n]

\* (name, date, number) = str(f).split('/')[-1].split('.')[0].split('_')
\* f"{date}_{name}_{number}.txt"; the revert pass is the same swap
NewName1(p) ==
    LET segs == Split(Str(p), Slash)
        fields == Split(Split(segs[Len(segs)], Dot)[1], Underscore)
    IN  IF Len(fields) # 3 THEN NoName("ValueError")
        ELSE Name(Join3(fields[2], fields[1], fields[3]) \o TxtSuffix)

\* f.suffix: what f.stem leaves of the name
Suffix(name) == SubSeq(name, Len(Stem(name)) + 1, Len(name))

\* fname = f.stem.split('_')
\* new_file_name = f"{fname[1]}_{fname[0]}_{fname[2]}{f.suffix}"
NewName2(p) ==
    LET fname == Split(Stem(p.name), Underscore)
    IN  IF Len(fname) < 3 THEN NoName("IndexError")
        ELSE Name(Join3(fname[2], fname[1], fname[3]) \o Suffix(p.name))

\* os.rename(src, dst) and Path.rename(dst) on a '/'-separated file system:
\* an existing dst of the same kind is replaced without a word
rename(listing, src, dst) ==
    IF ~HasEntry(listing, src)
    THEN [ok |-> FALSE, error |-> "FileNotFoundError", listings |-> {listing}]
    ELSE IF src = dst
    THEN [ok |-> TRUE, error |-> "none", listings |-> {listing}]
    ELSE IF HasEntry(listing, dst) /\ EntryOf(listing, dst).kind # EntryOf(listing, src).kind
    THEN [ok |-> FALSE,
          error |-> IF EntryOf(listing, dst).kind = "dir"
                    THEN "IsADirectoryError" ELSE "NotADirectoryError",
          listings |-> {listing}]
    ELSE [ok |-> TRUE, error |-> "none",
          listings |->
              Created(SelectSeq(listing, LAMBDA e : e.name \notin {src, dst}),
                      Entry(dst, EntryOf(listing, src).kind, EntryOf(listing, src).content))]

\* [x for x in path_dir.iterdir() if str(x).endswith('.txt')]
TxtList(dir, entries) ==
    SelectSeq([k \in DOMAIN entries |-> PathOf(dir, entries[k].name)],
              LAMBDA x : EndsWith(Str(x), TxtSuffix))

RenameDiscover(c) ==
    /\ pc \in Rest
    /\ cell' = c
    /\ out' = <<>>
    /\ LET d == iterdir(dirExists, fs)
       IN  IF d.ok
           THEN /\ file_list' = TxtList(path_dir, d.entries)
                /\ i' = 0
                /\ pc' = IF file_list' = <<>> THEN "done" ELSE "loop"
                /\ err' = "none"
           ELSE /\ pc' = "aborted"
                /\ err' = "FileNotFoundError"
                /\ UNCHANGED <<file_list, i>>
    /\ UNCHANGED <<snap, path_dir, dirExists, fs, sink, up, df, f, table_name, st>>

\* one iteration: the new name, then the rename
Renaming(n) ==
    IF ~n.ok
    THEN /\ Uncaught(n.error)
         /\ UNCHANGED fs
    ELSE LET r == rename(fs, f'.name, n.name)
         IN  IF r.ok
             THEN /\ fs' \in r.listings
                  /\ Finish
                  /\ UNCHANGED <<out, err>>
             ELSE /\ Uncaught(r.error)
                  /\ UNCHANGED fs

Rename1 == cell = "none" /\ RenameDiscover("rename1")
Revert1 == cell = "rename1" /\ pc = "done" /\ RenameDiscover("revert1")
Rename2 == cell \in {"none", "revert1"} /\ pc \in {"idle", "done"} /\ RenameDiscover("rename2")
Revert2 == cell = "rename2" /\ pc = "done" /\ RenameDiscover("revert2")

Step1 ==
    /\ pc = "loop" /\ cell \in {"rename1", "revert1"}
    /\ f' = file_list[i + 1]
    /\ Renaming(NewName1(f'))
    /\ UNCHANGED <<snap, path_dir, dirExists, sink, up, df, file_list, table_name, st, cell>>

Step2 ==
    /\ pc = "loop" /\ cell \in {"rename2", "revert2"}
    /\ f' = file_list[i + 1]
    /\ Renaming(NewName2(f'))
    /\ UNCHANGED <<snap, path_dir, dirExists, sink, up, df, file_list, table_name, st, cell>>

\* the .txt files follow the naming convention, each with a content of its
\* own; notes.txt does not, and Person.csv is not a .txt file
AB1 == <<"a","_","b","_","1",".","t","x","t">>
BA1 == <<"b","_","a","_","1",".","t","x","t">>
AA1 == <<"a","_","a","_","1",".","t","x","t">>
AB2 == <<"a","_","b","_","2",".","t","x","t">>
TxtCandidates ==
    { Entry(AB1, "file", Content(<<"ab1">>, <<>>)),
      Entry(BA1, "file", Content(<<"ba1">>, <<>>)),
      Entry(AA1, "file", Content(<<"aa1">>, <<>>)),
      Entry(AB2, "file", Content(<<"ab2">>, <<>>)),
      Entry(NotesTxt, "file", Good1),
      Entry(PersonCsv, "file", Good1) }

TxtListings ==
    {l \in UNION {[1..n -> TxtCandidates] : n \in 0..MaxEntries} : DistinctNames(l)}

\* the directory as it is found is kept in snap
RenameInit ==
    /\ path_dir = DataDir
    /\ dirExists = TRUE
    /\ fs \in TxtListings
    /\ snap = [taken |-> TRUE, fs |-> fs, sink |-> [s \in Sinks |-> NoTables]]
    /\ sink = [s \in Sinks |-> NoTables]
    /\ up = [s \in Sinks |-> TRUE]
    /\ df = NoFrame
    /\ file_list = <<>>
    /\ f = NoPath
    /\ table_name = <<>>
    /\ i = 0
    /\ st = <<>>
    /\ pc = "idle"
    /\ cell = "none"
    /\ out = <<>>
    /\ err = "none"

RenameNext == Rename1 \/ Revert1 \/ Rename2 \/ Revert2 \/ Step1 \/ Step2

RenameSpec == RenameInit /\ [][RenameNext]_vars

\* the files of a directory: name and content
Files(listing) == {<<listing[k].name, listing[k].content>> : k \in DOMAIN listing}

\* every .txt entry is a file named name_date_number.txt
Conventional(listing) ==
    \A k \in DOMAIN listing :
        EndsWith(listing[k].name, TxtSuffix) =>
            /\ listing[k].kind = "file"
            /\ Len(Split(Stem(listing[k].name), Underscore)) = 3
            /\ \A h \in DOMAIN Stem(listing[k].name) : Stem(listing[k].name)[h] # Dot

\* C15: over a directory whose .txt files are all named
\* name_date_number.txt, when the revert pass of Solution 1 or of Solution 2
\* has ended, the directory holds exactly the files it held before the
\* rename pass, each under its original name with its original content.
C15_RevertRestores ==
    (cell \in {"revert1", "revert2"} /\ pc \in {"done", "aborted"} /\ Conventional(snap.fs)) =>
        /\ pc = "done"
        /\ Files(fs) = Files(snap.fs)

(***************************************************************************)
(* The SQLite section and then the Postgres section, over one directory,   *)
(* with both databases empty and reachable.                                *)
(***************************************************************************)
ReproInit ==
    /\ Init
    /\ dirExists
    /\ sink = [s \in Sinks |-> NoTables]
    /\ up = [s \in Sinks |-> TRUE]

ReproSqlite == cell = "none" /\ SqliteDiscover
ReproPg == cell = "sqlite" /\ pc \in {"done", "aborted"} /\ PgDiscover

ReproNext ==
    \/ ReproSqlite
    \/ SqliteParse
    \/ SqliteLoad
    \/ ReproPg
    \/ PgParse
    \/ PgLoad

ReproSpec == ReproInit /\ [][ReproNext]_vars

\* C16: when the Postgres loop has ended, after the SQLite loop ran over the
\* same directory, the Postgres database holds the tables the SQLite
\* database holds: the same names, each with the same columns and rows.
C16_PostgresReproducesSqlite ==
    (cell = "pg" /\ pc = "done") => sink.pg = sink.sqlite

(***************************************************************************)
(* A migration cell run twice in a row.  Between the two runs the          *)
(* directory and the databases are copied into snap.                       *)
(***************************************************************************)
TwiceFirstSqlite == cell = "none" /\ SqliteDiscover
TwiceFirstPg == cell = "none" /\ PgDiscover

\* the first run is over: what it left is kept, and the notebook is at rest
KeepFirstRun ==
    /\ BatchEnded
    /\ ~snap.taken
    /\ snap' = [taken |-> TRUE, fs |-> fs, sink |-> sink]
    /\ pc' = "idle"
    /\ UNCHANGED <<path_dir, dirExists, fs, sink, up, df, file_list, f, table_name,
                   i, st, cell, out, err>>

TwiceAgainSqlite == snap.taken /\ pc = "idle" /\ cell = "sqlite" /\ SqliteDiscover
TwiceAgainPg == snap.taken /\ pc = "idle" /\ cell = "pg" /\ PgDiscover

TwiceNext ==
    \/ TwiceFirstSqlite
    \/ TwiceFirstPg
    \/ SqliteParse
    \/ SqliteLoad
    \/ PgParse
    \/ PgLoad
    \/ KeepFirstRun
    \/ TwiceAgainSqlite
    \/ TwiceAgainPg

TwiceSpec == Init /\ [][TwiceNext]_vars

\* C18: when the second of two runs of a migration cell in a row has ended,
\* both databases hold exactly the tables they held when the first run
\* ended, and the directory holds the same source files.
C18_SecondRunChangesNothing ==
    (snap.taken /\ BatchEnded) =>
        /\ sink = snap.sink
        /\ Sources(fs) = Sources(snap.fs)

\* the second run has loaded two files of one table name and different
\* rows: the table changed during the run, and ends as the first run left it
C18_Witness ==
    /\ snap.taken /\ BatchEnded /\ pc = "done"
    /\ st = <<"Loaded", "Loaded">>
    /\ deriveTableName(file_list[1]) = deriveTableName(file_list[2])
    /\ TableOf(read_csv(fs, file_list[1]).frame, IdCol) #
          TableOf(read_csv(fs, file_list[2]).frame, IdCol)
    /\ sink = snap.sink

====
